---- MODULE Spec2Model ----
(***************************************************************************)
(* Model of validate/json_diff.py: the structural comparator diff_json and *)
(* the canonicalisation pass prepare_diff_input.                           *)
(*                                                                         *)
(* Python values are tagged tuples whose first component is the runtime    *)
(* type name: <<"int", n>>, <<"float", "finite", n>> (the float n.0),      *)
(* <<"float", "nan", 0>>, <<"str", s>>, <<"NoneType", 0>>,                 *)
(* <<"list", sequence>>, <<"set", elements>>, <<"dict", items>> with items *)
(* a set of <<key, value>> pairs.  Dict and set membership follow Python:  *)
(* identity first, then ==, so that 1 and 1.0 are one key / one element.   *)
(***************************************************************************)
EXTENDS Integers, Sequences, FiniteSets, TLC

VARIABLES pc, src_data, dst_data, config, source, destination, result

vars == <<pc, src_data, dst_data, config, source, destination, result>>

\* Integers and finite floats of the input universes range over 1..MaxInt.
MaxInt == 2
\* Longest raw list / largest canonical set of the input universes.
MaxLen == 2

(***************************************************************************)
(* Python values                                                           *)
(***************************************************************************)
PyInt(n) == <<"int", n>>
PyFloat(n) == <<"float", "finite", n>>
NaN == <<"float", "nan", 0>>
PyStr(s) == <<"str", s>>
None == <<"NoneType", 0>>
PyList(seq) == <<"list", seq>>
PySet(elems) == <<"set", elems>>
PyDict(items) == <<"dict", items>>

\* type(x): the runtime type name.
type(x) == x[1]

\* isinstance(x, (int, float, str))
isinstance_scalar(x) == type(x) \in {"int", "float", "str"}

IsNumber(x) == type(x) \in {"int", "float"}

IsNaN(x) == type(x) = "float" /\ x[2] = "nan"

NumVal(x) == IF type(x) = "int" THEN x[2] ELSE x[3]

\* Python's a == b on scalars and None: numbers compare by value across
\* int and float, a NaN equals nothing (itself included), everything else
\* compares within its own type.
PyEq(a, b) ==
    IF IsNumber(a) /\ IsNumber(b)
    THEN ~IsNaN(a) /\ ~IsNaN(b) /\ NumVal(a) = NumVal(b)
    ELSE type(a) = type(b) /\ a = b

\* The hash-table match of set and dict lookups: same object, or ==.
\* One NaN denotes one float object, so it matches itself by identity.
SameKey(a, b) == (type(a) = type(b) /\ a = b) \/ PyEq(a, b)

\* x in s, for a Python set (or a set of dict keys) s.
PyIn(x, s) == \E y \in s : SameKey(x, y)

\* s.union(t): the elements of s, then those of t not already matched.
PyUnion(s, t) == s \cup {y \in t : ~PyIn(y, s)}

\* d.keys()
keys(d) == {it[1] : it \in d[2]}

\* key in d
HasKey(d, key) == PyIn(key, keys(d))

\* d[key]
Get(d, key) == (CHOOSE it \in d[2] : SameKey(it[1], key))[2]

(***************************************************************************)
(* Diff results                                                            *)
(***************************************************************************)
TypeDiff(s, d) == <<"TypeDiff", s, d>>
ValueDiff(s, d) == <<"ValueDiff", s, d>>
Miss(side, value) == <<"Miss", side, value>>
\* DictDiff: children is a set of <<key, diff>> pairs.
DictDiff(children) == <<"DictDiff", children>>

\* A raised exception, propagated to the caller.
Raise(exc) == <<"raise", exc>>
IsRaise(x) == x[1] = "raise"

\* Mutant of has_diff: an empty DictDiff is surfaced as a diff.
has_diff_always(children) == TRUE

\* DictDiff.has_diff
has_diff(children) == Cardinality(children) > 0

\* Mutant of Truthy: every child diff is recorded, "no diff" included.
Truthy_always(diff) == TRUE

\* Truth value of a child diff in `if child_diff:`; the diff classes define
\* neither __bool__ nor __len__, so only None is false.
Truthy(diff) == diff # None

\* type(source) != type(destination)
type_differs(s, d) == type(s) # type(d)

\* Mutant of scalar_differs: `<` written for `!=`.
scalar_differs_less(s, d) ==
    IF IsNumber(s) THEN ~IsNaN(s) /\ ~IsNaN(d) /\ NumVal(s) < NumVal(d)
    ELSE ~PyEq(s, d)

\* source != destination, on two scalars of one type
scalar_differs(s, d) == ~PyEq(s, d)

\* Mutant of union_keys: only the keys of source are visited.
union_keys_source_only(s, d) == keys(s)

\* set(source.keys()).union(set(destination.keys()))
union_keys(s, d) == PyUnion(keys(s), keys(d))

\* Mutant of miss_child: the sides are swapped.
miss_child_swapped(s, d, key) ==
    IF ~HasKey(s, key) THEN Miss("DESTINATION", Get(d, key))
    ELSE Miss("SOURCE", Get(s, key))

\* The child recorded for a key of one side only.
miss_child(s, d, key) ==
    IF ~HasKey(s, key) THEN Miss("SOURCE", Get(d, key))
    ELSE Miss("DESTINATION", Get(s, key))

\* The child recorded for an element of one set only.
miss_element(s, d, key) ==
    IF ~PyIn(key, s[2]) THEN Miss("SOURCE", key)
    ELSE Miss("DESTINATION", key)

\* diff_json(source, destination).  The children of a DictDiff are the
\* <<key, diff>> pairs that add_child stores; the keys come from a union, so
\* its assertion never fails.  An exception of a recursive call propagates.
RECURSIVE diff_json(_, _)
diff_json(s, d) ==
    IF type_differs(s, d) THEN TypeDiff(s, d)
    ELSE IF isinstance_scalar(s)
    THEN IF scalar_differs(s, d) THEN ValueDiff(s, d) ELSE None
    ELSE IF type(s) = "dict"
    THEN LET ks == union_keys(s, d)
             both == {k \in ks : HasKey(s, k) /\ HasKey(d, k)}
             sub == {<<k, diff_json(Get(s, k), Get(d, k))>> : k \in both}
             missing == {<<k, miss_child(s, d, k)>> : k \in ks \ both}
             children == missing \cup {c \in sub : Truthy(c[2])}
         IN IF \E c \in sub : IsRaise(c[2]) THEN Raise("NotImplementedError")
            ELSE IF has_diff(children) THEN DictDiff(children)
            ELSE None
    ELSE IF type(s) = "set"
    THEN LET ks == PyUnion(s[2], d[2])
             children == {<<k, miss_element(s, d, k)>> :
                            k \in {e \in ks : ~PyIn(e, s[2]) \/ ~PyIn(e, d[2])}}
         IN IF has_diff(children) THEN DictDiff(children) ELSE None
    ELSE Raise("NotImplementedError")

(***************************************************************************)
(* Preparation                                                             *)
(***************************************************************************)
_HASH_PRIMARY_KEY == PyStr("__HASH__")

\* bool(x) for the values the configuration tests: None and empty
\* containers are false.
PyTruthy(x) ==
    IF type(x) = "NoneType" THEN FALSE
    ELSE IF type(x) = "list" THEN Len(x[2]) > 0
    ELSE IF type(x) \in {"dict", "set"} THEN x[2] # {}
    ELSE TRUE

\* DiffConfig.__init__: a primary key that is neither the hash sentinel nor
\* a list is wrapped in a one-element list, None included.
DiffConfig(primary_key, ignored_keys, children) ==
    <<"DiffConfig",
      IF primary_key = _HASH_PRIMARY_KEY THEN primary_key
      ELSE IF type(primary_key) = "list" THEN primary_key
      ELSE PyList(<<primary_key>>),
      ignored_keys,
      children>>

cfg_primary_key(cfg) == cfg[2]
cfg_ignore_keys(cfg) == cfg[3]
cfg_children(cfg) == cfg[4]

\* str(converted): a string determined by the rendered value.
str_of(converted) == <<"str", "rendering", converted>>

\* hash(x) succeeds: lists, sets and dicts are unhashable.
Hashable(x) == type(x) \notin {"list", "set", "dict"}

\* Mutant of set_of: the list is returned as it is.
set_of_unconverted(seq) == PyList(seq)

\* set(data): elements are added in list order, an element matching an
\* earlier one is not added; an unhashable element raises TypeError.
set_of(seq) ==
    IF \E i \in 1..Len(seq) : ~Hashable(seq[i]) THEN Raise("TypeError")
    ELSE PySet({seq[i] : i \in {j \in 1..Len(seq) :
                                  \A k \in 1..(j - 1) : ~SameKey(seq[k], seq[j])}})

\* isinstance(config, DiffConfig) and config.primary_key
has_primary_key(cfg) == cfg # None /\ PyTruthy(cfg_primary_key(cfg))

\* config and config.ignore_keys and key in config.ignore_keys
ignored(cfg, key) ==
    /\ cfg # None
    /\ PyTruthy(cfg_ignore_keys(cfg))
    /\ \E i \in 1..Len(cfg_ignore_keys(cfg)[2]) : SameKey(cfg_ignore_keys(cfg)[2][i], key)

\* config.children.get(key, None) when config and config.children, else None
child_config(cfg, key) ==
    IF cfg # None /\ PyTruthy(cfg_children(cfg)) /\ HasKey(cfg_children(cfg), key)
    THEN Get(cfg_children(cfg), key)
    ELSE None

\* primary_key in converted (converted is a mapping: the elements of a list
\* of mappings are mappings or None in the input universe).
candidate_present(converted, primary_key) == HasKey(converted, primary_key)

\* Mutant of record_key: the candidate loop has no break, the last present
\* candidate wins.
record_key_last(converted, cfg) ==
    IF cfg_primary_key(cfg) = _HASH_PRIMARY_KEY THEN str_of(converted)
    ELSE LET cands == cfg_primary_key(cfg)[2]
             present == {i \in 1..Len(cands) : candidate_present(converted, cands[i])}
         IN IF present = {} THEN None
            ELSE Get(converted, cands[CHOOSE i \in present : \A j \in present : j <= i])

\* The key computed for one prepared element: its rendering, or the value
\* under the first candidate it holds, or None when it holds none.
record_key(converted, cfg) ==
    IF cfg_primary_key(cfg) = _HASH_PRIMARY_KEY THEN str_of(converted)
    ELSE LET cands == cfg_primary_key(cfg)[2]
             present == {i \in 1..Len(cands) : candidate_present(converted, cands[i])}
         IN IF present = {} THEN None
            ELSE Get(converted, cands[CHOOSE i \in present : \A j \in present : i <= j])

\* Mutant of insert_record: a later element replaces the one already kept.
insert_record_last_wins(items, key, converted) ==
    {it \in items : ~SameKey(it[1], key)} \cup {<<key, converted>>}

\* if key not in result: result[key] = converted; else only a log line.
insert_record(items, key, converted) ==
    IF ~PyIn(key, {it[1] : it \in items}) THEN items \cup {<<key, converted>>}
    ELSE items

\* The iteration order of a raw mapping's keys: the raw mappings of the
\* input universe list "a" before "b".
FieldNames == <<PyStr("a"), PyStr("b")>>

RECURSIVE prepare_diff_input(_, _)
RECURSIVE prepare_records(_, _, _)
RECURSIVE prepare_items(_, _, _, _)

\* The loop over a list of mappings: seq is what remains of the list, items
\* the result built so far.  An exception of any step ends the loop.
prepare_records(seq, cfg, items) ==
    IF seq = <<>> THEN PyDict(items)
    ELSE LET converted == prepare_diff_input(Head(seq), cfg)
         IN IF IsRaise(converted) THEN converted
            ELSE LET key == record_key(converted, cfg)
                 IN IF ~Hashable(key) THEN Raise("TypeError")
                    ELSE prepare_records(Tail(seq), cfg,
                                         insert_record(items, key, converted))

\* The loop over a mapping's items, from the i-th field name on.
prepare_items(data, cfg, i, items) ==
    IF i > Len(FieldNames) THEN PyDict(items)
    ELSE LET key == FieldNames[i]
         IN IF ~HasKey(data, key) \/ ignored(cfg, key)
            THEN prepare_items(data, cfg, i + 1, items)
            ELSE LET value == prepare_diff_input(Get(data, key), child_config(cfg, key))
                 IN IF IsRaise(value) THEN value
                    ELSE prepare_items(data, cfg, i + 1, items \cup {<<key, value>>})

prepare_diff_input(data, cfg) ==
    IF type(data) = "list"
    THEN IF Len(data[2]) = 0 THEN PyDict({})
         ELSE IF isinstance_scalar(data[2][1]) THEN set_of(data[2])
         ELSE IF type(data[2][1]) = "dict"
         THEN IF ~has_primary_key(cfg) THEN Raise("AssertionError")
              ELSE prepare_records(data[2], cfg, {})
         ELSE Raise("NotImplementedError")
    ELSE IF type(data) = "dict"
    THEN IF data[2] = {} THEN PyDict({})
         ELSE prepare_items(data, cfg, 1, {})
    ELSE IF isinstance_scalar(data) THEN data
    ELSE Raise("NotImplementedError")

(***************************************************************************)
(* Input universe of the comparator: canonical values                      *)
(***************************************************************************)
Ints == {PyInt(n) : n \in 1..MaxInt}
Floats == {PyFloat(n) : n \in 1..MaxInt} \cup {NaN}
Scalars == Ints \cup Floats \cup {PyStr("a")}

\* A Python set holds no two elements that match as keys.
IsPySet(S) == \A x \in S : \A y \in S : SameKey(x, y) => x = y

PySets == {PySet(S) : S \in {T \in SUBSET Scalars : Cardinality(T) <= MaxLen /\ IsPySet(T)}}

Absent == <<"absent">>

\* The mapping with the given values under "a" and "b" (Absent: no such key).
Record(va, vb) ==
    PyDict((IF va = Absent THEN {} ELSE {<<PyStr("a"), va>>})
           \cup (IF vb = Absent THEN {} ELSE {<<PyStr("b"), vb>>}))

InnerDicts == {Record(va, vb) : va \in Scalars \cup {Absent}, vb \in Scalars \cup {Absent}}

OuterDicts ==
    {Record(va, vb) : va \in Scalars \cup PySets \cup InnerDicts \cup {Absent},
                      vb \in Ints \cup {Absent}}

Canonical == Scalars \cup PySets \cup InnerDicts \cup OuterDicts

(***************************************************************************)
(* Input universes of preparation: raw values and configurations           *)
(***************************************************************************)
SeqsUpTo(S, n) == UNION {[1..k -> S] : k \in 0..n}

RawAtoms == Scalars \cup {None}

\* Lists of primitives, a None possibly among them.
ListAtoms == Ints \cup {PyFloat(1), None}
AtomLists == {PyList(s) : s \in SeqsUpTo(ListAtoms, MaxLen)}

\* Raw records: "a" holds 1, 2 or 1.0; "b" holds 1, a None or a list.
RawRecords ==
    {Record(va, vb) : va \in {PyInt(1), PyInt(2), PyFloat(1), Absent},
                      vb \in {PyInt(1), None, PyList(<<PyInt(1)>>), Absent}}

\* Lists of mappings: the first element is a mapping, None may follow.
RecordLists ==
    {PyList(s) : s \in {q \in SeqsUpTo(RawRecords \cup {None}, MaxLen) :
                          Len(q) > 0 /\ type(q[1]) = "dict"}}

\* A mapping holding a list under "a".
Wrapped == {Record(l, Absent) : l \in AtomLists \cup {PyList(<<r>>) : r \in RawRecords}}

RawData == RawAtoms \cup AtomLists \cup RawRecords \cup RecordLists \cup Wrapped

PrimaryKeys ==
    {None, _HASH_PRIMARY_KEY, PyStr("a"), PyList(<<>>),
     PyList(<<PyStr("a"), PyStr("b")>>), PyList(<<PyStr("b"), PyStr("a")>>)}

IgnoredKeys == {None, PyList(<<PyStr("a")>>), PyList(<<PyStr("b")>>)}

FlatConfigs == {DiffConfig(pk, ig, None) : pk \in PrimaryKeys, ig \in IgnoredKeys}

\* A configuration whose children configure the list under "a".
ParentConfigs ==
    {DiffConfig(None, None, PyDict({<<PyStr("a"), DiffConfig(pk, None, None)>>})) :
       pk \in PrimaryKeys}

Configs == {None} \cup FlatConfigs \cup ParentConfigs

\* The inputs of the two-sided runs.
PipeData ==
    RawAtoms \cup AtomLists \cup RawRecords
    \cup {PyList(<<r>>) : r \in RawRecords}
    \cup {Record(l, Absent) : l \in AtomLists}

PipeConfigs ==
    {None, DiffConfig(PyStr("a"), None, None), DiffConfig(_HASH_PRIMARY_KEY, None, None),
     DiffConfig(None, PyList(<<PyStr("b")>>), None)}

(***************************************************************************)
(* The state machines                                                      *)
(***************************************************************************)
\* The comparator alone, on two canonical values.
Init ==
    /\ pc = "diff"
    /\ src_data = None
    /\ dst_data = None
    /\ config = None
    /\ source \in Canonical
    /\ destination \in Canonical
    /\ result = None

\* One call of prepare_diff_input.
InitPrepare ==
    /\ pc = "prepare_source"
    /\ src_data \in RawData
    /\ dst_data = None
    /\ config \in Configs
    /\ source = None
    /\ destination = None
    /\ result = None

\* Both sides prepared under one configuration, then compared.
InitPipeline ==
    /\ pc = "prepare_source"
    /\ src_data \in PipeData
    /\ dst_data \in PipeData
    /\ config \in PipeConfigs
    /\ source = None
    /\ destination = None
    /\ result = None

PrepareSource ==
    /\ pc = "prepare_source"
    /\ source' = prepare_diff_input(src_data, config)
    /\ pc' = IF IsRaise(source') THEN "failed" ELSE "prepare_destination"
    /\ UNCHANGED <<src_data, dst_data, config, destination, result>>

PrepareDestination ==
    /\ pc = "prepare_destination"
    /\ destination' = prepare_diff_input(dst_data, config)
    /\ pc' = IF IsRaise(destination') THEN "failed" ELSE "diff"
    /\ UNCHANGED <<src_data, dst_data, config, source, result>>

DiffJson ==
    /\ pc = "diff"
    /\ result' = diff_json(source, destination)
    /\ pc' = "done"
    /\ UNCHANGED <<src_data, dst_data, config, source, destination>>

Next == DiffJson

NextPrepare == PrepareSource

NextPipeline == PrepareSource \/ PrepareDestination \/ DiffJson

Spec == Init /\ [][Next]_vars

SpecPrepare == InitPrepare /\ [][NextPrepare]_vars

SpecPipeline == InitPipeline /\ [][NextPipeline]_vars

(***************************************************************************)
(* Properties of the comparator (checked under Spec)                       *)
(***************************************************************************)
Done == pc = "done"

IsDictDiff(r) == r[1] = "DictDiff"
IsMiss(r) == r[1] = "Miss"

\* The children recorded under a key matching k.
ChildrenAt(r, k) == {c[2] : c \in {x \in r[2] : SameKey(x[1], k)}}

\* A NaN stands where the comparator applies != to it: as the compared
\* scalar itself or as a mapping value, at any depth.
RECURSIVE ComparesNaN(_)
ComparesNaN(v) ==
    IF type(v) = "dict" THEN \E it \in v[2] : ComparesNaN(it[2])
    ELSE IsNaN(v)

\* C1 as stated: for every canonical value v, diff_json(v, v) is "no diff".
C1_Reflexivity == (Done /\ source = destination) => result = None

\* C1 (amended): for every canonical value v in which no NaN is the compared
\* scalar or a mapping value at any depth, diff_json(v, v) is "no diff".
C1_ReflexivityNoNaN ==
    (Done /\ source = destination /\ ~ComparesNaN(source)) => result = None

C1_Witness ==
    /\ Done
    /\ source = destination
    /\ type(source) = "dict"
    /\ \E it \in source[2] : type(it[2]) = "dict" /\ it[2][2] # {}
    /\ \E it \in source[2] : type(it[2]) = "int"
    /\ result = None

\* a == b as Python evaluates it on canonical values, with the kind checked
\* wherever the comparator compares two values: keys and set elements are
\* matched as the hash table matches them.
RECURSIVE NativeEqual(_, _)
NativeEqual(a, b) ==
    /\ type(a) = type(b)
    /\ IF type(a) = "dict"
       THEN /\ \A k \in keys(a) : HasKey(b, k)
            /\ \A k \in keys(b) : HasKey(a, k)
            /\ \A k \in keys(a) : NativeEqual(Get(a, k), Get(b, k))
       ELSE IF type(a) = "set"
       THEN /\ \A x \in a[2] : PyIn(x, b[2])
            /\ \A x \in b[2] : PyIn(x, a[2])
       ELSE PyEq(a, b)

\* C2 as stated: if diff_json(a, b) is "no diff" then a and b are
\* structurally identical: same kind at every position, same keys and
\* elements, equal scalars.
C2_NoDiffIdentical == (Done /\ result = None) => source = destination

\* C2 (amended): if diff_json(a, b) is "no diff" then a and b have the same
\* kind and equal scalars at every compared position (the top level and all
\* mapping values) and the same keys and set elements, where keys and set
\* elements are matched by native equality, under which the integer 1 and
\* the float 1.0 are one element.
C2_NoDiffNativeEqual == (Done /\ result = None) => NativeEqual(source, destination)

C2_Witness ==
    /\ Done
    /\ result = None
    /\ type(source) = "dict"
    /\ \E it \in source[2] : type(it[2]) = "set"
    /\ source # destination

\* The Missing nodes of diff r of s against d are exactly right at every
\* depth: a Miss names the side lacking the key and carries the value of the
\* side holding it, every one-sided key has its Miss, and a key of both
\* sides has none.
RECURSIVE MissCorrect(_, _, _)
MissCorrect(s, d, r) ==
    IF ~IsDictDiff(r) THEN ~IsMiss(r)
    ELSE IF type(s) = "dict"
    THEN /\ \A c \in r[2] : HasKey(s, c[1]) \/ HasKey(d, c[1])
         /\ \A k \in keys(s) \cup keys(d) :
              LET inS == HasKey(s, k)
                  inD == HasKey(d, k)
                  ch == ChildrenAt(r, k)
              IN /\ (inS /\ ~inD) <=> (\E c \in ch : IsMiss(c) /\ c[2] = "DESTINATION")
                 /\ (inD /\ ~inS) <=> (\E c \in ch : IsMiss(c) /\ c[2] = "SOURCE")
                 /\ (inS /\ ~inD) => ch = {Miss("DESTINATION", Get(s, k))}
                 /\ (inD /\ ~inS) => ch = {Miss("SOURCE", Get(d, k))}
                 /\ (inS /\ inD) =>
                      \A c \in ch : MissCorrect(Get(s, k), Get(d, k), c)
    ELSE /\ \A c \in r[2] : PyIn(c[1], s[2]) \/ PyIn(c[1], d[2])
         /\ \A k \in s[2] \cup d[2] :
              LET inS == PyIn(k, s[2])
                  inD == PyIn(k, d[2])
                  ch == ChildrenAt(r, k)
              IN /\ (inS /\ ~inD) <=> (\E c \in ch : IsMiss(c) /\ c[2] = "DESTINATION")
                 /\ (inD /\ ~inS) <=> (\E c \in ch : IsMiss(c) /\ c[2] = "SOURCE")
                 /\ (inS /\ ~inD) => ch = {Miss("DESTINATION", k)}
                 /\ (inD /\ ~inS) => ch = {Miss("SOURCE", k)}
                 /\ (inS /\ inD) => ch = {}

\* C3: every Missing(side, value) node of diff_json(source, destination),
\* for mappings and for sets, has side = DESTINATION exactly when the key is
\* in source only (value source[key], or the element), side = SOURCE exactly
\* when it is in destination only (value destination[key], or the element),
\* and keys or elements of both sides never yield a Missing node.
C3_MissingSides == Done => MissCorrect(source, destination, result)

C3_Witness ==
    /\ Done
    /\ IsDictDiff(result)
    /\ \E c \in result[2] : IsMiss(c[2]) /\ c[2][2] = "SOURCE"
    /\ \E c \in result[2] :
         /\ IsDictDiff(c[2])
         /\ \E g \in c[2][2] : IsMiss(g[2]) /\ g[2][2] = "DESTINATION"

\* Every DictDiff of the tree r has a child, and no child is "no diff".
RECURSIVE Collapsed(_)
Collapsed(r) ==
    IsDictDiff(r) =>
        /\ r[2] # {}
        /\ \A c \in r[2] : c[2] # None /\ Collapsed(c[2])

\* C4: in the result of diff_json every DictDiff node, at top level or as a
\* child at any depth, has at least one child; a comparison without
\* children returns "no diff", so equal nested mappings add no child.
C4_Collapse == Done => Collapsed(result)

C4_Witness ==
    /\ Done
    /\ IsDictDiff(result)
    /\ type(source) = "dict"
    /\ \E it \in source[2] :
         /\ type(it[2]) = "dict"
         /\ it[2][2] # {}
         /\ it \in destination[2]
         /\ ChildrenAt(result, it[1]) = {}

\* C5: if diff_json(a, b) is a TypeMismatch (ValueMismatch) with source a
\* and destination b, then diff_json(b, a) is a TypeMismatch (ValueMismatch)
\* with source b and destination a.
C5_MismatchSymmetry ==
    (Done /\ result[1] \in {"TypeDiff", "ValueDiff"}
          /\ result[2] = source /\ result[3] = destination) =>
        LET rev == diff_json(destination, source)
        IN rev = <<result[1], destination, source>>

C5_Witness ==
    /\ Done
    /\ result[1] = "ValueDiff"
    /\ type(source) = "int"
    /\ result[2] = source
    /\ result[3] = destination

(***************************************************************************)
(* Properties of preparation (checked under SpecPrepare)                   *)
(***************************************************************************)
Prepared == pc \in {"prepare_destination", "failed"}

\* A non-empty list whose first element is a mapping.
StartsWithMapping(data) ==
    type(data) = "list" /\ Len(data[2]) > 0 /\ type(data[2][1]) = "dict"

\* A non-empty list of mappings only.
IsListOfMappings(data) ==
    StartsWithMapping(data) /\ \A i \in 1..Len(data[2]) : type(data[2][i]) = "dict"

\* The prepared form and the computed key of the i-th element of src_data.
Conv(i) == prepare_diff_input(src_data[2][i], config)
Key(i) == record_key(Conv(i), config)

\* The first element whose computed key matches that of the i-th.
FirstWithKey(i) ==
    CHOOSE j \in 1..i : SameKey(Key(j), Key(i))
                        /\ \A k \in 1..(j - 1) : ~SameKey(Key(k), Key(i))

\* C6: preparing a list of mappings maps every computed key k to the
\* prepared form of the first element whose computed key is k; later
\* elements with that key are dropped without error, and the result has
\* exactly one entry per distinct computed key.
C6_FirstWins ==
    (/\ Prepared
     /\ IsListOfMappings(src_data)
     /\ has_primary_key(config)
     /\ \A i \in 1..Len(src_data[2]) : ~IsRaise(Conv(i)) /\ Hashable(Key(i))) =>
        /\ type(source) = "dict"
        /\ \A i \in 1..Len(src_data[2]) :
             /\ HasKey(source, Key(i))
             /\ Get(source, Key(i)) = Conv(FirstWithKey(i))
        /\ \A k \in keys(source) : \E i \in 1..Len(src_data[2]) : SameKey(Key(i), k)
        /\ Cardinality(source[2])
             = Cardinality({FirstWithKey(i) : i \in 1..Len(src_data[2])})

C6_Witness ==
    /\ Prepared
    /\ IsListOfMappings(src_data)
    /\ has_primary_key(config)
    /\ Len(src_data[2]) = 2
    /\ type(source) = "dict"
    /\ Key(1) # None
    /\ SameKey(Key(1), Key(2))
    /\ Conv(1) # Conv(2)
    /\ source[2] = {<<Key(1), Conv(1)>>}

\* The configuration specifies no non-null primary key.
NoPrimaryKey(cfg) ==
    \/ cfg = None
    \/ cfg_primary_key(cfg) = PyList(<<>>)
    \/ cfg_primary_key(cfg) = PyList(<<None>>)

\* C7: preparing a non-empty list of mappings fails whenever the
\* configuration is absent or specifies no non-null primary key, a
\* DiffConfig built with only ignored_keys or children included.
C7_ConfigRequired ==
    (Prepared /\ StartsWithMapping(src_data) /\ NoPrimaryKey(config)) => IsRaise(source)

\* A value outside int, float, str, mapping and list stands in the raw
\* input at a position that ignore_keys does not remove.
RECURSIVE HoldsUnsupported(_, _)
HoldsUnsupported(data, cfg) ==
    IF type(data) = "list"
    THEN \E i \in 1..Len(data[2]) : HoldsUnsupported(data[2][i], cfg)
    ELSE IF type(data) = "dict"
    THEN \E it \in data[2] :
            ~ignored(cfg, it[1]) /\ HoldsUnsupported(it[2], child_config(cfg, it[1]))
    ELSE ~isinstance_scalar(data)

\* C8: a raw input holding an unsupported value (a None, say) at a position
\* not removed by ignore_keys, as any element of a list and not only the
\* first, makes preparation fail and return no result.  (The claim names
\* the type-not-supported error; failing at all is already violated.)
C8_UnsupportedFatal ==
    (Prepared /\ HoldsUnsupported(src_data, config)) => IsRaise(source)

\* The candidate list of a configuration that names fields.
Candidates == cfg_primary_key(config)[2]

\* The first candidate, in list order, that the mapping d holds (0: none).
FirstCandidate(d) ==
    LET present == {c \in 1..Len(Candidates) : HasKey(d, Candidates[c])}
    IN IF present = {} THEN 0
       ELSE CHOOSE c \in present : \A e \in present : c <= e

\* The value of the first candidate held by the raw i-th record, and by its
\* prepared form.
RawKey(i) == Get(src_data[2][i], Candidates[FirstCandidate(src_data[2][i])])
PreparedKey(i) == Get(Conv(i), Candidates[FirstCandidate(Conv(i))])

\* A list of mappings was prepared under a list of candidate field names.
KeyedByCandidates ==
    /\ Prepared
    /\ IsListOfMappings(src_data)
    /\ config # None
    /\ type(cfg_primary_key(config)) = "list"
    /\ type(source) = "dict"

\* C9 as stated: every record is keyed by the value of the first candidate
\* present in that record, whatever ignore_keys holds.
C9_FirstCandidateOfRecord ==
    KeyedByCandidates =>
        \A i \in 1..Len(src_data[2]) :
            FirstCandidate(src_data[2][i]) # 0 =>
                /\ HasKey(source, RawKey(i))
                /\ \E j \in 1..Len(src_data[2]) :
                      /\ FirstCandidate(src_data[2][j]) # 0
                      /\ SameKey(RawKey(j), RawKey(i))
                      /\ Get(source, RawKey(i)) = Conv(j)

\* C9 (amended): every record is keyed by the value of the first candidate,
\* in list order, present in the prepared record, that is among the fields
\* left once ignore_keys are dropped; a candidate named in ignore_keys is
\* never used as the key.
C9_FirstCandidateOfPrepared ==
    KeyedByCandidates =>
        \A i \in 1..Len(src_data[2]) :
            FirstCandidate(Conv(i)) # 0 =>
                /\ HasKey(source, PreparedKey(i))
                /\ \E j \in 1..Len(src_data[2]) :
                      /\ FirstCandidate(Conv(j)) # 0
                      /\ SameKey(PreparedKey(j), PreparedKey(i))
                      /\ Get(source, PreparedKey(i)) = Conv(j)

C9_Witness ==
    /\ KeyedByCandidates
    /\ Len(Candidates) = 2
    /\ ignored(config, Candidates[1])
    /\ HasKey(src_data[2][1], Candidates[1])
    /\ HasKey(src_data[2][1], Candidates[2])
    /\ ~SameKey(RawKey(1), PreparedKey(1))
    /\ source[2] = {<<PreparedKey(1), Conv(1)>>}

(***************************************************************************)
(* Properties of preparation followed by comparison (SpecPipeline)         *)
(***************************************************************************)
\* C10: when preparation succeeds on both sides, diff_json of the two
\* prepared values never raises the type-not-supported error, at any depth:
\* it returns a diff node or "no diff".
C10_ComparatorNeverRaises == Done => ~IsRaise(result)

C10_Witness ==
    /\ Done
    /\ src_data # None
    /\ type(source) = "dict"
    /\ \E it \in source[2] : type(it[2]) = "set" /\ None \in it[2][2]
    /\ type(destination) = "dict"
    /\ \E it \in destination[2] : type(it[2]) = "set"
    /\ IsDictDiff(result)

====
